---- MODULE Spec2Model ----
(***************************************************************************)
(* PyAnimats: the evolutionary loop of pyanimats.py.                       *)
(*                                                                         *)
(* The module models main() of pyanimats.py as a state machine: the        *)
(* experiment parameters, the heap of Animat objects, the live population, *)
(* the Logbook, the HallOfFame, the snapshot bookkeeping and the frame of  *)
(* select().  Objects are identified by their index in `heap`, so that     *)
(* parent back-references and aliasing are explicit.                       *)
(*                                                                         *)
(* The specifications:                                                     *)
(*   SpecSelect  select(animats, k) alone, from every small population     *)
(*   SpecSelectFair  the same under fair random draws                      *)
(*   Spec        whole runs with small populations and few generations     *)
(*   SpecLoop    whole runs of up to MaxNgen generations with a one-animat *)
(*               population and every snapshot / log configuration         *)
(*   SpecPool    whole runs whose evaluation runs on a worker pool         *)
(*   SpecCli     the command-line options and the experiment file          *)
(*   SpecSave    the file writes of save_data                              *)
(*   SpecFitness the state average of fitness_functions.py                 *)
(*   SpecLineage the lineages save_data collects for the final save        *)
(***************************************************************************)
EXTENDS Integers, Sequences, FiniteSets, TLC

VARIABLES
    experiment,           \* the Experiment parameters main() reads
    pc,                   \* position of main() in its code
    raised,               \* the exception that ended the run, "" if none
    heap,                 \* every Animat object created so far; id = index
    population,           \* main's `population`: a list of object ids
    pop,                  \* process_gen's `pop` once selection has run
    offspring,            \* process_gen's `offspring`
    fitnesses,            \* evaluate's `fitnesses` of its last call
    gen,                  \* main's loop variable `gen`
    logbook,              \* the Logbook: a list of records
    hall_of_fame,         \* the HallOfFame: deep copies, best first
    snapshot,             \* main's `snapshot` counter
    clock,                \* the wall clock read by time(), in seconds
    current_time,         \* main's `current_time`
    snap_duration_start,  \* main's `snap_duration_start`
    saved,                \* the save_data calls made so far, in order
    spc,                  \* position of select() in its code
    animats,              \* select's parameter `animats`
    k,                    \* select's parameter `k`
    max_fitness,          \* select's `max_fitness`
    chosen,               \* select's `chosen`
    i,                    \* select's loop variable `i`
    candidate,            \* select's `candidate`
    fpc,                  \* position in fitness_functions.py
    game,                 \* the array ind.play_game() returns
    top_n,                \* _most_common_states' parameter `n`
    func,                 \* the metric wrapped by _average_over_game_states
    unique_states_and_counts, \* what _most_common_states returned
    sums,                 \* wrapper's `sums`, filled so far
    mean,                 \* what wrapper returned: sums.mean()
    arguments,            \* docopt's `arguments`: option -> string or None
    experiment_file,      \* the parameters the experiment file gives
    cli_overrides,        \* main's `cli_overrides`
    tasks,                \* worker pool: the result each evaluation returns
    completed,            \* worker pool: the tasks done, in completion order
    results,              \* worker pool: the result list being gathered
    fs,                   \* the file system: directory -> files written
    output_dir,           \* save_data's parameter `output_dir`
    wpc,                  \* position of save_data in its code
    to_save,              \* save_data's `to_save`
    lineages              \* save_data's `lineages`

vars == << experiment, pc, raised, heap, population, pop, offspring, fitnesses,
           gen, logbook, hall_of_fame, snapshot, clock, current_time,
           snap_duration_start, saved, spc, animats, k, max_fitness, chosen,
           i, candidate, fpc, game, top_n, func, unique_states_and_counts, sums,
           mean, arguments, experiment_file, cli_overrides, tasks, completed,
           results, fs, output_dir, wpc, to_save, lineages >>

mainVars == << experiment, pc, raised, heap, population, pop, offspring,
               fitnesses, gen, logbook, hall_of_fame, snapshot, clock,
               current_time, snap_duration_start, saved >>

selectVars == << spc, animats, k, max_fitness, chosen, i, candidate >>

fitnessVars == << fpc, game, top_n, func, unique_states_and_counts, sums, mean >>

cliVars == << arguments, experiment_file, cli_overrides >>

poolVars == << tasks, completed, results >>

saveVars == << fs, output_dir, wpc, to_save, lineages >>

auxVars == << fitnessVars, cliVars, poolVars, saveVars >>

(***************************************************************************)
(* Bounds of the model.                                                    *)
(***************************************************************************)
MaxNgen == 10          \* SpecLoop: largest configured generation count
MaxNgenEvo == 3        \* Spec: largest generation count, stub fitness
MaxNgenFit == 2        \* Spec: largest generation count, scalar fitness
MaxNgenMulti == 1      \* Spec: largest generation count, tuple fitness
MaxPop == 2            \* Spec: largest population size
MaxMinSnapshots == 3   \* largest configured min_snapshots
MaxLogInterval == 4    \* largest configured log_interval
MaxFrequency == 1      \* largest configured snapshot_frequency (minutes)
MaxRaw == 1            \* raw fitness values of the registered functions
MaxAux == 1            \* auxiliary metric values of a tuple fitness
MaxSelPop == 3         \* SpecSelect: largest population size
MaxSelFitness == 2     \* SpecSelect: largest transformed fitness
MaxK == 2              \* SpecSelect: largest k
RandomDenominator == 2 \* random() returns n / RandomDenominator
MaxTrials == 2         \* SpecFitness: most trials of a game
MaxSteps == 2          \* SpecFitness: most timesteps of a trial
NumNodes == 2          \* SpecFitness: nodes of an animat
MaxTopN == 3           \* SpecFitness: largest n of _most_common_states
MaxMetric == 1         \* SpecFitness: largest value of the wrapped metric
MaxGiven == 2          \* SpecCli: most options given on one command line
MaxNgenPool == 1       \* SpecPool: largest generation count
MaxPoolPop == 3        \* SpecPool: largest population size
MaxNgenSave == 3       \* SpecSave: largest generation of a save
MaxLineageGen == 8     \* SpecLineage: largest generation of a save
MaxLineagePop == 2     \* SpecLineage: largest population size
MaxSamples == 3        \* SpecLineage: largest num_samples

(***************************************************************************)
(* Program constants and null values.                                      *)
(***************************************************************************)
MINUTES == 60
None == 0              \* the null parent reference (object ids start at 1)
Unset == -1            \* a fitness field that evaluation has not set
Unbound == -1          \* a local variable not assigned yet
FITNESS_BASE == 2
NotGiven == -1         \* the default `n=False` of fitness_functions.py

(***************************************************************************)
(* The values of the variables of a part of the program that is not        *)
(* running.                                                                *)
(***************************************************************************)
FitnessIdle ==
    /\ fpc = "idle"
    /\ game = << >>
    /\ top_n = NotGiven
    /\ func = << >>
    /\ unique_states_and_counts = << >>
    /\ sums = << >>
    /\ mean = [sum |-> 0, size |-> 0]

CliIdle ==
    /\ arguments = << >>
    /\ experiment_file = << >>
    /\ cli_overrides = << >>

PoolIdle ==
    /\ tasks = << >>
    /\ completed = << >>
    /\ results = << >>

SaveIdle ==
    /\ fs = << >>
    /\ output_dir = << >>
    /\ wpc = "idle"
    /\ to_save = << >>
    /\ lineages = << >>

AuxIdle == FitnessIdle /\ CliIdle /\ PoolIdle /\ SaveIdle

(***************************************************************************)
(* Helpers on lists.                                                       *)
(***************************************************************************)
Range(s) == { s[j] : j \in 1..Len(s) }

RECURSIVE MaxOf(_)
MaxOf(S) ==
    LET x == CHOOSE y \in S : TRUE
    IN  IF S = {x} THEN x
        ELSE LET m == MaxOf(S \ {x}) IN IF x > m THEN x ELSE m

RECURSIVE Pow(_, _)
Pow(b, e) == IF e <= 0 THEN 1 ELSE b * Pow(b, e - 1)

(***************************************************************************)
(* select(animats, k): roulette-wheel selection by rejection sampling.     *)
(***************************************************************************)
\* animat.fitness.value of the object with the given id
FitnessValue(id) == heap[id].value

\* max([animat.fitness.value for animat in animats])
MaxFitness(ids) == MaxOf({ FitnessValue(ids[j]) : j \in 1..Len(ids) })

\* the values random.random() can return: n / RandomDenominator in [0, 1)
RandomNumerators == 0..(RandomDenominator - 1)

\* the comparison of line 91 turned around: random() >= value / max
AcceptsReversed(n, value, max) == n * max >= value * RandomDenominator

\* random.random() <= value / max, for max > 0, with random() = n / D
Accepts(n, value, max) == n * max <= value * RandomDenominator

\* for i in range(k): whether the loop has another iteration at i
RangeHasOffByOne(j, n) == j <= n

RangeHas(j, n) == j < n

\* line 85-86: max_fitness and the empty result list
SelectMax ==
    /\ spc = "max"
    /\ IF Len(animats) = 0
       THEN /\ spc' = "raised"        \* max() of an empty list: ValueError
            /\ UNCHANGED << max_fitness, chosen, i >>
       ELSE /\ max_fitness' = MaxFitness(animats)
            /\ chosen' = << >>
            /\ i' = 0
            /\ spc' = "for"
    /\ UNCHANGED << animats, k, candidate >>
    /\ UNCHANGED mainVars
    /\ UNCHANGED auxVars

\* line 87-88: the for loop's header
SelectFor ==
    /\ spc = "for"
    /\ spc' = IF RangeHas(i, k) THEN "while" ELSE "return"
    /\ UNCHANGED << animats, k, max_fitness, chosen, i, candidate >>
    /\ UNCHANGED mainVars
    /\ UNCHANGED auxVars

\* line 89-93: one iteration of the while loop, and the append once done.
\* With max_fitness = 0 the quotient is 0/0: a ZeroDivisionError for Python
\* numbers, and nan for numpy floats, which compares False with anything.
SelectWhile ==
    /\ spc = "while"
    /\ \E c \in 1..Len(animats), n \in RandomNumerators :
         /\ candidate' = animats[c]
         /\ IF max_fitness = 0
            THEN \/ /\ spc' = "raised"
                    /\ UNCHANGED << chosen, i >>
                 \/ /\ spc' = "while"
                    /\ UNCHANGED << chosen, i >>
            ELSE IF Accepts(n, FitnessValue(animats[c]), max_fitness)
                 THEN /\ chosen' = Append(chosen, animats[c])
                      /\ i' = i + 1
                      /\ spc' = "for"
                 ELSE /\ spc' = "while"
                      /\ UNCHANGED << chosen, i >>
    /\ UNCHANGED << animats, k, max_fitness >>
    /\ UNCHANGED mainVars
    /\ UNCHANGED auxVars

\* The parameters of a state in which main() is not running
NoExperiment ==
    [ngen |-> 0, popsize |-> 0, min_snapshots |-> 0, log_interval |-> 1,
     snapshot_frequency |-> 0, fitness_function |-> "nat"]

(***************************************************************************)
(* SpecSelect: select() called on every small population.                  *)
(***************************************************************************)
\* An Animat whose transformed fitness is v (the other fields are not read
\* by select)
AnimatWithValue(v) ==
    [gen |-> 0, raw |-> Unset, value |-> v, alt_fitness |-> << >>,
     parent |-> None]

InitSelect ==
    /\ \E n \in 1..MaxSelPop :
         /\ heap \in [1..n -> { AnimatWithValue(v) : v \in 0..MaxSelFitness }]
         /\ population = [j \in 1..n |-> j]
    /\ animats = population
    /\ k \in 0..MaxK
    /\ spc = "max"
    /\ max_fitness = Unbound
    /\ chosen = << >>
    /\ i = Unbound
    /\ candidate = Unbound
    /\ experiment = NoExperiment
    /\ pc = "selecting"
    /\ raised = ""
    /\ pop = << >>
    /\ offspring = << >>
    /\ fitnesses = << >>
    /\ gen = Unbound
    /\ logbook = << >>
    /\ hall_of_fame = << >>
    /\ snapshot = Unbound
    /\ clock = 0
    /\ current_time = Unbound
    /\ snap_duration_start = Unbound
    /\ saved = << >>
    /\ AuxIdle

NextSelect == SelectMax \/ SelectFor \/ SelectWhile

SpecSelect == InitSelect /\ [][NextSelect]_vars

\* the iterations of the while loop that end it: line 91 sets done
SelectAccept == SelectWhile /\ spc' = "for"

\* SpecSelectFair: select() under fair random draws.  The code runs each
\* step it can take, and a draw that is possible at every iteration of the
\* while loop is eventually made.
SpecSelectFair ==
    /\ InitSelect
    /\ [][NextSelect]_vars
    /\ WF_vars(SelectMax)
    /\ WF_vars(SelectFor)
    /\ WF_vars(SelectAccept)

(***************************************************************************)
(* Animat objects and fitness evaluation.                                  *)
(***************************************************************************)
\* Animat(experiment, init_genome): generation 0, no parent, fitness unset
NewAnimat ==
    [gen |-> 0, raw |-> Unset, value |-> Unset, alt_fitness |-> << >>,
     parent |-> None]

\* animat.fitness.set(raw): the raw score and its exponential transform
Transform(raw) == Pow(FITNESS_BASE, raw)

FitnessSet(a, raw) == [a EXCEPT !.raw = raw, !.value = Transform(raw)]

\* Whether the fitness function of this name returns a tuple
ReturnsTuple(name) == name = "mat"

\* The values toolbox.evaluate can return for an animat.  "nat" stands for
\* the registered scalar functions, "mat" returns (fitness, auxiliary) and
\* "gen_index" is the stub that returns the animat's generation index.
FitnessResults(name, a) ==
    CASE name = "mat" -> { << r, x >> : r \in 0..MaxRaw, x \in 0..MaxAux }
      [] name = "gen_index" -> { a.gen }
      [] OTHER -> 0..MaxRaw

\* multi_fit_evaluate's loop body with the auxiliary metrics taken from the
\* wrong end of the tuple
MultiFitStoreSwapped(a, fitness) ==
    [FitnessSet(a, fitness[Len(fitness)])
        EXCEPT !.alt_fitness = SubSeq(fitness, 1, Len(fitness) - 1)]

\* multi_fit_evaluate, line 275-276
MultiFitStore(a, fitness) ==
    [FitnessSet(a, fitness[1]) EXCEPT !.alt_fitness = Tail(fitness)]

\* single_fit_evaluate, line 281
SingleFitStore(a, fitness) == FitnessSet(a, fitness)

\* evaluate(pop, gen) pairing the animats with the results in the order the
\* workers completed them
EvaluateInCompletionOrder(h, ids, fits) ==
    [id \in 1..Len(h) |->
        IF \E j \in 1..Len(ids) : ids[j] = id
        THEN LET j == CHOOSE j \in 1..Len(ids) : ids[j] = id
             IN  IF experiment.fitness_function = "mat"
                 THEN [FitnessSet(h[id], fits[completed[j]][1])
                          EXCEPT !.alt_fitness = Tail(fits[completed[j]])]
                 ELSE FitnessSet(h[id], fits[completed[j]])
        ELSE h[id]]

\* evaluate(pop, gen), line 272-284: the heap after the i-th fitness has been
\* stored in the i-th animat of ids
Evaluate(h, ids, fits) ==
    [id \in 1..Len(h) |->
        IF \E j \in 1..Len(ids) : ids[j] = id
        THEN LET j == CHOOSE j \in 1..Len(ids) : ids[j] = id
             IN  IF experiment.fitness_function = "mat"
                 THEN MultiFitStore(h[id], fits[j])
                 ELSE SingleFitStore(h[id], fits[j])
        ELSE h[id]]

\* the lists toolbox.map(toolbox.evaluate, pop) can return
FitnessLists(h, ids) ==
    { f \in [1..Len(ids) ->
                UNION { FitnessResults(experiment.fitness_function, h[ids[j]])
                        : j \in 1..Len(ids) }] :
        \A j \in 1..Len(ids) :
            f[j] \in FitnessResults(experiment.fitness_function, h[ids[j]]) }

(***************************************************************************)
(* The HallOfFame and record(pop, gen).                                    *)
(***************************************************************************)
\* tools.HallOfFame(maxsize=experiment.popsize), line 256
HofMaxsize == experiment.popsize

\* The entry the HallOfFame keeps of an animat: a deep copy of its fields,
\* tagged with the object it was copied from
HofEntry(h, id) ==
    [of |-> id, gen |-> h[id].gen, raw |-> h[id].raw, value |-> h[id].value,
     alt_fitness |-> h[id].alt_fitness]

\* One animat merged into the bounded best-ever list: placed after every
\* entry that is at least as fit (earlier entries win ties), then the list
\* is cut to maxsize
HofInsert(hof, e) ==
    LET p == Cardinality({ j \in 1..Len(hof) : hof[j].value >= e.value })
        merged == SubSeq(hof, 1, p) \o << e >> \o SubSeq(hof, p + 1, Len(hof))
    IN  IF Len(merged) > HofMaxsize
        THEN SubSeq(merged, 1, HofMaxsize)
        ELSE merged

\* hall_of_fame.update(pop)
RECURSIVE HofUpdate(_, _, _)
HofUpdate(hof, h, ids) ==
    IF Len(ids) = 0 THEN hof
    ELSE HofUpdate(HofInsert(hof, HofEntry(h, ids[1])), h, Tail(ids))

\* line 288 without the interval test: every generation is logged
ShouldLogAlways(g) == TRUE

\* line 288: whether record() logs generation g
ShouldLogNonZero(g) == g % experiment.log_interval # 0

ShouldLog(g) == g % experiment.log_interval = 0

\* mstats.compile(pop) and logbook.record(gen=gen, **record), line 289-290
LogRecord(h, ids, g) ==
    [gen |-> g,
     fitness_max |-> MaxOf({ h[ids[j]].raw : j \in 1..Len(ids) }),
     real_fitness_max |-> MaxOf({ h[ids[j]].value : j \in 1..Len(ids) })]

\* record(pop, gen) with the HallOfFame updated only when the generation is
\* logged
RecordOnlyWhenLogged(h, ids, g) ==
    /\ hall_of_fame' = IF ShouldLog(g) THEN HofUpdate(hall_of_fame, h, ids)
                       ELSE hall_of_fame
    /\ logbook' = IF ShouldLog(g) THEN Append(logbook, LogRecord(h, ids, g))
                  ELSE logbook

\* record(pop, gen), line 286-290
Record(h, ids, g) ==
    /\ hall_of_fame' = HofUpdate(hall_of_fame, h, ids)
    /\ logbook' = IF ShouldLog(g) THEN Append(logbook, LogRecord(h, ids, g))
                  ELSE logbook

(***************************************************************************)
(* main(): the constants it derives from the experiment.                   *)
(***************************************************************************)
\* line 161-163: the interval is float('inf') when it is not positive
SNAPSHOT_TIME_INTERVAL == experiment.snapshot_frequency * MINUTES

TimeIntervalIsInf == SNAPSHOT_TIME_INTERVAL <= 0

\* line 166-170: float('inf') when min_snapshots <= 0
GenerationIntervalIsInf == experiment.min_snapshots <= 0

SnapshotGenerationIntervalSwapped ==
    experiment.min_snapshots \div experiment.ngen

SNAPSHOT_GENERATION_INTERVAL == experiment.ngen \div experiment.min_snapshots

\* The seconds that can pass between two readings of time().  The clock is
\* compared with a finite interval only, so it stands still otherwise.
Elapse == IF TimeIntervalIsInf THEN {0} ELSE {0, MINUTES}

\* current_time - snap_duration_start >= SNAPSHOT_TIME_INTERVAL, line 340
TimeElapsed(now) ==
    /\ ~TimeIntervalIsInf
    /\ now - snap_duration_start >= SNAPSHOT_TIME_INTERVAL

\* save_data(output_dir, gen, ...): what the call is made with
SaveData(target, number, g) ==
    [target |-> target, snapshot |-> number, gen |-> g]

(***************************************************************************)
(* process_gen(pop, gen).                                                  *)
(***************************************************************************)
\* line 294, the call: select(pop, len(pop))
Selection ==
    /\ pc = "select"
    /\ spc = "idle"
    /\ animats' = population
    /\ k' = Len(population)
    /\ spc' = "max"
    /\ pc' = "selecting"
    /\ UNCHANGED << max_fitness, chosen, i, candidate >>
    /\ UNCHANGED << experiment, raised, heap, population, pop, offspring,
                    fitnesses, gen, logbook, hall_of_fame, snapshot, clock,
                    current_time, snap_duration_start, saved >>
    /\ UNCHANGED auxVars

\* line 294, the return: pop is rebound to the selected list
Selected ==
    /\ pc = "selecting"
    /\ spc \in {"return", "raised"}
    /\ IF spc = "return"
       THEN /\ pop' = chosen
            /\ pc' = "clone"
            /\ raised' = raised
       ELSE /\ pop' = pop
            /\ pc' = "error"
            /\ raised' = "select"
    /\ spc' = "idle"
    /\ UNCHANGED << animats, k, max_fitness, chosen, i, candidate >>
    /\ UNCHANGED << experiment, heap, population, offspring, fitnesses, gen,
                    logbook, hall_of_fame, snapshot, clock, current_time,
                    snap_duration_start, saved >>
    /\ UNCHANGED auxVars

\* line 296-299 without the tag of line 299: the clone keeps its parent's
\* generation number
CloneKeepsGen(a, g) == a

\* toolbox.clone(animat) and the generation tag, line 296-299
Clone(a, g) == [a EXCEPT !.gen = g]

\* line 296-299 without the copy: the offspring are the selected animats
\* themselves, tagged in place
CloningAliases ==
    /\ pc = "clone"
    /\ offspring' = pop
    /\ heap' = [id \in 1..Len(heap) |->
                  IF id \in Range(pop) THEN Clone(heap[id], gen) ELSE heap[id]]
    /\ pc' = "vary"
    /\ UNCHANGED << experiment, raised, population, pop, fitnesses, gen,
                    logbook, hall_of_fame, snapshot, clock, current_time,
                    snap_duration_start, saved >>
    /\ UNCHANGED selectVars
    /\ UNCHANGED auxVars

Cloning ==
    /\ pc = "clone"
    /\ offspring' = [j \in 1..Len(pop) |-> Len(heap) + j]
    /\ heap' = heap \o [j \in 1..Len(pop) |-> Clone(heap[pop[j]], gen)]
    /\ pc' = "vary"
    /\ UNCHANGED << experiment, raised, population, pop, fitnesses, gen,
                    logbook, hall_of_fame, snapshot, clock, current_time,
                    snap_duration_start, saved >>
    /\ UNCHANGED selectVars
    /\ UNCHANGED auxVars

\* line 301-303 without the assignment of line 303: the clone keeps the
\* parent reference it copied
VaryKeepsCopiedParent(h, off, sel) == h

\* line 301-303: the offspring are mutated (the genome is not modelled) and
\* each gets its parent reference
Vary(h, off, sel) ==
    [id \in 1..Len(h) |->
        IF \E j \in 1..Len(off) : off[j] = id
        THEN [h[id] EXCEPT !.parent = sel[CHOOSE j \in 1..Len(off) : off[j] = id]]
        ELSE h[id]]

Variation ==
    /\ pc = "vary"
    /\ heap' = Vary(heap, offspring, pop)
    /\ pc' = "evaluate"
    /\ UNCHANGED << experiment, raised, population, pop, offspring, fitnesses,
                    gen, logbook, hall_of_fame, snapshot, clock, current_time,
                    snap_duration_start, saved >>
    /\ UNCHANGED selectVars
    /\ UNCHANGED auxVars

\* line 305
Evaluation ==
    /\ pc = "evaluate"
    /\ \E f \in FitnessLists(heap, offspring) :
         /\ fitnesses' = f
         /\ heap' = Evaluate(heap, offspring, f)
    /\ pc' = "record"
    /\ UNCHANGED << experiment, raised, population, pop, offspring, gen,
                    logbook, hall_of_fame, snapshot, clock, current_time,
                    snap_duration_start, saved >>
    /\ UNCHANGED selectVars
    /\ UNCHANGED auxVars

\* line 307-308 with the result of process_gen dropped at line 330: main's
\* population stays the one of the generation before
RecordingKeepsPopulation ==
    /\ pc = "record"
    /\ Record(heap, offspring, gen)
    /\ population' = population
    /\ pc' = "snapshot"
    /\ UNCHANGED << experiment, raised, heap, pop, offspring, fitnesses, gen,
                    snapshot, clock, current_time, snap_duration_start,
                    saved >>
    /\ UNCHANGED selectVars
    /\ UNCHANGED auxVars

\* line 307-308 and the assignment of line 330
Recording ==
    /\ pc = "record"
    /\ Record(heap, offspring, gen)
    /\ population' = offspring
    /\ pc' = "snapshot"
    /\ UNCHANGED << experiment, raised, heap, pop, offspring, fitnesses, gen,
                    snapshot, clock, current_time, snap_duration_start,
                    saved >>
    /\ UNCHANGED selectVars
    /\ UNCHANGED auxVars

(***************************************************************************)
(* main(): the simulation.                                                 *)
(***************************************************************************)
\* line 315
Evaluate0 ==
    /\ pc = "evaluate0"
    /\ \E f \in FitnessLists(heap, population) :
         /\ fitnesses' = f
         /\ heap' = Evaluate(heap, population, f)
    /\ pc' = "record0"
    /\ UNCHANGED << experiment, raised, population, pop, offspring, gen,
                    logbook, hall_of_fame, snapshot, clock, current_time,
                    snap_duration_start, saved >>
    /\ UNCHANGED selectVars
    /\ UNCHANGED auxVars

\* line 317-327
Record0 ==
    /\ pc = "record0"
    /\ Record(heap, population, 0)
    /\ snap_duration_start' = clock
    /\ snapshot' = 1
    /\ pc' = "for"
    /\ UNCHANGED << experiment, raised, heap, population, pop, offspring,
                    fitnesses, gen, clock, current_time, saved >>
    /\ UNCHANGED selectVars
    /\ UNCHANGED auxVars

\* line 328 with a range that runs one generation too far
ForGenOffByOne ==
    /\ pc = "for"
    /\ LET next == IF gen = Unbound THEN 1 ELSE gen + 1
       IN  IF next <= experiment.ngen + 1
           THEN /\ gen' = next
                /\ pc' = "select"
           ELSE /\ gen' = gen
                /\ pc' = "finish"
    /\ UNCHANGED << experiment, raised, heap, population, pop, offspring,
                    fitnesses, logbook, hall_of_fame, snapshot, clock,
                    current_time, snap_duration_start, saved >>
    /\ UNCHANGED selectVars
    /\ UNCHANGED auxVars

\* line 328: for gen in range(1, experiment.ngen + 1)
ForGen ==
    /\ pc = "for"
    /\ LET next == IF gen = Unbound THEN 1 ELSE gen + 1
       IN  IF next <= experiment.ngen
           THEN /\ gen' = next
                /\ pc' = "select"
           ELSE /\ gen' = gen
                /\ pc' = "finish"
    /\ UNCHANGED << experiment, raised, heap, population, pop, offspring,
                    fitnesses, logbook, hall_of_fame, snapshot, clock,
                    current_time, snap_duration_start, saved >>
    /\ UNCHANGED selectVars
    /\ UNCHANGED auxVars

\* line 338-351.  The status report of line 332-337 only prints.  `or`
\* evaluates gen % SNAPSHOT_GENERATION_INTERVAL only when the wall-clock
\* test is false; with an interval of 0 that is a ZeroDivisionError.
Snapshotting ==
    /\ pc = "snapshot"
    /\ \E d \in Elapse :
         LET now == clock + d
         IN  /\ clock' = now
             /\ current_time' = now
             /\ IF TimeElapsed(now)
                   \/ ( /\ ~GenerationIntervalIsInf
                        /\ SNAPSHOT_GENERATION_INTERVAL # 0
                        /\ gen % SNAPSHOT_GENERATION_INTERVAL = 0 )
                THEN /\ saved' = Append(saved, SaveData("snapshot", snapshot, gen))
                     /\ snapshot' = snapshot + 1
                     /\ snap_duration_start' = now
                     /\ pc' = "for"
                     /\ raised' = raised
                ELSE IF ~GenerationIntervalIsInf /\ SNAPSHOT_GENERATION_INTERVAL = 0
                THEN /\ pc' = "error"
                     /\ raised' = "ZeroDivisionError"
                     /\ UNCHANGED << saved, snapshot, snap_duration_start >>
                ELSE /\ pc' = "for"
                     /\ UNCHANGED << saved, snapshot, snap_duration_start, raised >>
    /\ UNCHANGED << experiment, heap, population, pop, offspring, fitnesses,
                    gen, logbook, hall_of_fame >>
    /\ UNCHANGED selectVars
    /\ UNCHANGED auxVars

\* line 356-366: the final save_data(OUTPUT_DIR, gen, ...).  `gen` is bound
\* by the for loop only; reading it unbound is an UnboundLocalError.
Finish ==
    /\ pc = "finish"
    /\ IF gen = Unbound
       THEN /\ pc' = "error"
            /\ raised' = "UnboundLocalError"
            /\ saved' = saved
       ELSE /\ saved' = Append(saved, SaveData("output", 0, gen))
            /\ pc' = "done"
            /\ raised' = raised
    /\ UNCHANGED << experiment, heap, population, pop, offspring, fitnesses,
                    gen, logbook, hall_of_fame, snapshot, clock, current_time,
                    snap_duration_start >>
    /\ UNCHANGED selectVars
    /\ UNCHANGED auxVars

\* The state after main()'s setup, line 105-311, for the given parameters
InitMain(configs) ==
    /\ experiment \in configs
    /\ pc = "evaluate0"
    /\ raised = ""
    /\ heap = [j \in 1..experiment.popsize |-> NewAnimat]
    /\ population = [j \in 1..experiment.popsize |-> j]
    /\ pop = << >>
    /\ offspring = << >>
    /\ fitnesses = << >>
    /\ gen = Unbound
    /\ logbook = << >>
    /\ hall_of_fame = << >>
    /\ snapshot = Unbound
    /\ clock = 0
    /\ current_time = Unbound
    /\ snap_duration_start = Unbound
    /\ saved = << >>
    /\ spc = "idle"
    /\ animats = << >>
    /\ k = Unbound
    /\ max_fitness = Unbound
    /\ chosen = << >>
    /\ i = Unbound
    /\ candidate = Unbound
    /\ AuxIdle

Next ==
    \/ Evaluate0
    \/ Record0
    \/ ForGen
    \/ Selection
    \/ SelectMax
    \/ SelectFor
    \/ SelectWhile
    \/ Selected
    \/ Cloning
    \/ Variation
    \/ Evaluation
    \/ Recording
    \/ Snapshotting
    \/ Finish

(***************************************************************************)
(* Spec: whole runs with small populations and few generations.            *)
(***************************************************************************)
\* The stub fitness runs longest; the functions whose result is free run
\* fewer generations
EvoConfigs ==
    [ngen : 0..MaxNgenEvo, popsize : 1..MaxPop, min_snapshots : {1},
     log_interval : 1..MaxLogInterval, snapshot_frequency : {0},
     fitness_function : {"gen_index"}]
    \cup
    [ngen : 0..MaxNgenFit, popsize : 1..MaxPop, min_snapshots : {1},
     log_interval : 1..MaxLogInterval, snapshot_frequency : {0},
     fitness_function : {"nat"}]
    \cup
    [ngen : 0..MaxNgenMulti, popsize : 1..MaxPop, min_snapshots : {1},
     log_interval : 1..MaxLogInterval, snapshot_frequency : {0},
     fitness_function : {"mat"}]

Init == InitMain(EvoConfigs)

Spec == Init /\ [][Next]_vars

(***************************************************************************)
(* SpecLoop: long runs of a one-animat population under every snapshot and *)
(* log configuration.                                                      *)
(***************************************************************************)
LoopConfigs ==
    [ngen : 0..MaxNgen, popsize : {1}, min_snapshots : 0..MaxMinSnapshots,
     log_interval : 1..MaxLogInterval, snapshot_frequency : 0..MaxFrequency,
     fitness_function : {"gen_index"}]

InitLoop == InitMain(LoopConfigs)

SpecLoop == InitLoop /\ [][Next]_vars

(***************************************************************************)
(* fitness_functions.py: the states of a game and their average.           *)
(***************************************************************************)
\* the states of the nodes of an animat: one row of the game array
States == [1..NumNodes -> {0, 1}]

\* the arrays ind.play_game() can return: trials x timesteps x nodes
Games ==
    UNION { [1..t -> [1..s -> States]] : t \in 1..MaxTrials, s \in 1..MaxSteps }

\* line 57, game.reshape(-1, game.shape[-1]): the rows, trial after trial
RECURSIVE Reshape(_)
Reshape(g) == IF Len(g) = 0 THEN << >> ELSE Head(g) \o Reshape(Tail(g))

\* the order of np.lexsort(game.T): the last column is the primary key, the
\* first column the last one; c is the column compared first
RECURSIVE LexBefore(_, _, _)
LexBefore(a, b, c) ==
    /\ c >= 1
    /\ \/ a[c] < b[c]
       \/ a[c] = b[c] /\ LexBefore(a, b, c - 1)

\* one row put into a sorted list of rows, after the rows that are not
\* behind it
LexInsert(rows, row) ==
    LET p == Cardinality({ j \in 1..Len(rows) :
                             ~LexBefore(row, rows[j], NumNodes) })
    IN  SubSeq(rows, 1, p) \o << row >> \o SubSeq(rows, p + 1, Len(rows))

\* line 59, game[np.lexsort(game.T), :]
RECURSIVE Lexsort(_)
Lexsort(rows) ==
    IF Len(rows) = 0 THEN << >>
    ELSE LexInsert(Lexsort(SubSeq(rows, 1, Len(rows) - 1)), rows[Len(rows)])

\* line 61, np.where(np.any(np.diff(sorted_game, axis=0), 1))[0]: the
\* 0-based indices of the rows that differ from the row after them
DiffIdx(sorted_game) ==
    SelectSeq([j \in 1..(Len(sorted_game) - 1) |-> j - 1],
              LAMBDA x : sorted_game[x + 1] # sorted_game[x + 2])

\* line 63
UniqueStates(sorted_game, diff_idx) ==
    [j \in 1..Len(diff_idx) |-> sorted_game[diff_idx[j] + 1]]
        \o << sorted_game[Len(sorted_game)] >>

\* line 66, np.diff(np.insert(diff_idx, 0, -1))
Counts(diff_idx) ==
    LET inserted == << -1 >> \o diff_idx
    IN  [j \in 1..(Len(inserted) - 1) |-> inserted[j + 1] - inserted[j]]

\* zip(unique_states, counts): as long as the shorter of the two
Zip(unique_states, counts) ==
    LET len == IF Len(unique_states) < Len(counts)
               THEN Len(unique_states) ELSE Len(counts)
    IN  [j \in 1..len |-> << unique_states[j], counts[j] >>]

\* sorted(..., key=lambda x: x[1], reverse=True): stable, so pairs of equal
\* count keep the order they had
RECURSIVE SortedByCount(_)
SortedByCount(pairs) ==
    IF Len(pairs) = 0 THEN << >>
    ELSE LET rest == SortedByCount(SubSeq(pairs, 1, Len(pairs) - 1))
             last == pairs[Len(pairs)]
             p == Cardinality({ j \in 1..Len(rest) : rest[j][2] >= last[2] })
         IN  SubSeq(rest, 1, p) \o << last >> \o SubSeq(rest, p + 1, Len(rest))

\* line 55-72, _most_common_states(game, n)
MostCommonStates(g, nparam) ==
    LET sorted_game == Lexsort(Reshape(g))
        diff_idx == DiffIdx(sorted_game)
        unique_states == UniqueStates(sorted_game, diff_idx)
        counts == Counts(diff_idx)
        size == Len(counts)
        limit == IF nparam = NotGiven \/ nparam > size THEN size ELSE nparam
        pairs == SortedByCount(Zip(unique_states, counts))
    IN  SubSeq(pairs, 1, IF limit < Len(pairs) THEN limit ELSE Len(pairs))

\* sums.sum()
RECURSIVE SeqSum(_)
SeqSum(q) == IF Len(q) = 0 THEN 0 ELSE Head(q) + SeqSum(Tail(q))

\* a direct call of _most_common_states(game, n), line 55-72
MostCommonStatesCall ==
    /\ fpc = "most_common_states"
    /\ unique_states_and_counts' = MostCommonStates(game, top_n)
    /\ fpc' = "returned"
    /\ UNCHANGED << game, top_n, func, sums, mean >>
    /\ UNCHANGED << mainVars, selectVars, cliVars, poolVars, saveVars >>

\* wrapper(ind), line 86-88
WrapperCall ==
    /\ fpc = "wrapper"
    /\ unique_states_and_counts' = MostCommonStates(game, top_n)
    /\ sums' = << >>
    /\ fpc' = "for"
    /\ UNCHANGED << game, top_n, func, mean >>
    /\ UNCHANGED << mainVars, selectVars, cliVars, poolVars, saveVars >>

\* line 89-90: sums[i] = func(ind, state, count)
WrapperFor ==
    /\ fpc = "for"
    /\ Len(sums) < Len(unique_states_and_counts)
    /\ sums' = Append(sums, func[unique_states_and_counts[Len(sums) + 1][1]])
    /\ UNCHANGED << fpc, game, top_n, func, unique_states_and_counts, mean >>
    /\ UNCHANGED << mainVars, selectVars, cliVars, poolVars, saveVars >>

\* line 91: sums.mean(), kept as the sum and the size it is divided by; the
\* mean of an empty array (size 0) is nan
WrapperMean ==
    /\ fpc = "for"
    /\ Len(sums) = Len(unique_states_and_counts)
    /\ mean' = [sum |-> SeqSum(sums), size |-> Len(sums)]
    /\ fpc' = "done"
    /\ UNCHANGED << game, top_n, func, unique_states_and_counts, sums >>
    /\ UNCHANGED << mainVars, selectVars, cliVars, poolVars, saveVars >>

(***************************************************************************)
(* SpecFitness: _most_common_states called on every small game, and the    *)
(* state average (ex, sp) of every small game under every small metric.    *)
(***************************************************************************)
MainIdle ==
    /\ experiment = NoExperiment
    /\ pc = "idle"
    /\ raised = ""
    /\ heap = << >>
    /\ population = << >>
    /\ pop = << >>
    /\ offspring = << >>
    /\ fitnesses = << >>
    /\ gen = Unbound
    /\ logbook = << >>
    /\ hall_of_fame = << >>
    /\ snapshot = Unbound
    /\ clock = 0
    /\ current_time = Unbound
    /\ snap_duration_start = Unbound
    /\ saved = << >>

SelectIdle ==
    /\ spc = "idle"
    /\ animats = << >>
    /\ k = Unbound
    /\ max_fitness = Unbound
    /\ chosen = << >>
    /\ i = Unbound
    /\ candidate = Unbound

InitFitness ==
    /\ game \in Games
    /\ \/ /\ fpc = "most_common_states"
          /\ top_n \in {NotGiven} \cup 1..MaxTopN
          /\ func = [s \in States |-> 0]
       \/ /\ fpc = "wrapper"
          /\ top_n = NotGiven
          /\ func \in [States -> 0..MaxMetric]
    /\ unique_states_and_counts = << >>
    /\ sums = << >>
    /\ mean = [sum |-> 0, size |-> 0]
    /\ MainIdle
    /\ SelectIdle
    /\ CliIdle
    /\ PoolIdle
    /\ SaveIdle

NextFitness == MostCommonStatesCall \/ WrapperCall \/ WrapperFor \/ WrapperMean

SpecFitness == InitFitness /\ [][NextFitness]_vars

(***************************************************************************)
(* main(): command-line options and the experiment file.                   *)
(***************************************************************************)
\* line 125-149: the options in the order of the dict, each with the
\* parameter name and the type it is converted with
cli_opt_to_param ==
    <<
       [opt |-> "--rng-seed", param |-> "rng_seed", type |-> "int"],
       [opt |-> "--snapshot", param |-> "snapshot_frequency", type |-> "int"],
       [opt |-> "--status-interval", param |-> "status_interval", type |-> "int"],
       [opt |-> "--min-snapshots", param |-> "min_snapshots", type |-> "int"],
       [opt |-> "--log-interval", param |-> "log_interval", type |-> "int"],
       [opt |-> "--num-samples", param |-> "num_samples", type |-> "int"],
       [opt |-> "--fitness", param |-> "fitness_function", type |-> "str"],
       [opt |-> "--num-gen", param |-> "ngen", type |-> "int"],
       [opt |-> "--pop-size", param |-> "popsize", type |-> "int"],
       [opt |-> "--init-genome", param |-> "init_genome", type |-> "str"],
       [opt |-> "--jumpstart", param |-> "init_start_codons", type |-> "int"],
       [opt |-> "--num-sensors", param |-> "num_sensors", type |-> "int"],
       [opt |-> "--num-hidden", param |-> "num_hidden", type |-> "int"],
       [opt |-> "--num-motors", param |-> "num_motors", type |-> "int"],
       [opt |-> "--world-width", param |-> "world_width", type |-> "int"],
       [opt |-> "--world-height", param |-> "world_height", type |-> "int"],
       [opt |-> "--mut-prob", param |-> "mutation_prob", type |-> "float"],
       [opt |-> "--dup-prob", param |-> "duplication_prob", type |-> "float"],
       [opt |-> "--del-prob", param |-> "deletion_prob", type |-> "float"],
       [opt |-> "--min-dup-del", param |-> "min_dup_del_width", type |-> "int"],
       [opt |-> "--max-dup-del", param |-> "min_dup_del_width", type |-> "int"],
       [opt |-> "--min-length", param |-> "min_genome_length", type |-> "int"],
       [opt |-> "--max-length", param |-> "max_genome_length", type |-> "int"]
    >>

\* the strings an option can be given on the command line
CliValues == { "1", "2" }

\* int(s) and float(s) of a numeral
NumberOf(s) == CASE s = "1" -> 1 [] s = "2" -> 2

\* param[1](arguments[opt]), line 151
Convert(type, s) == IF type = "str" THEN s ELSE NumberOf(s)

\* the parameters of an experiment
ParamNames ==
    { cli_opt_to_param[j].param : j \in 1..Len(cli_opt_to_param) }
        \cup { "max_dup_del_width" }

\* the parameters the experiment file gives: a name for the string
\* parameters, 0 for the numbers
ExperimentFile ==
    [q \in ParamNames |->
        IF q \in {"fitness_function", "init_genome"} THEN "file" ELSE 0]

\* docopt's arguments: the options that were given, each with its string
\* (an option that was not given is None, here: not in the domain)
ArgumentSets ==
    UNION { [given -> CliValues] :
              given \in { g \in SUBSET { cli_opt_to_param[j].opt
                                         : j \in 1..Len(cli_opt_to_param) } :
                            Cardinality(g) <= MaxGiven } }

\* line 151-153: the dict comprehension over the first j options; a later
\* option of the same parameter name replaces the earlier value
RECURSIVE CliOverrides(_, _)
CliOverrides(args, j) ==
    IF j = 0 THEN << >>
    ELSE LET before == CliOverrides(args, j - 1)
             entry == cli_opt_to_param[j]
         IN  IF entry.opt \in DOMAIN args
             THEN [q \in DOMAIN before \cup {entry.param} |->
                     IF q = entry.param
                     THEN Convert(entry.type, args[entry.opt])
                     ELSE before[q]]
             ELSE before

\* Experiment(filepath=..., override=cli_overrides): the file's parameters
\* with the overrides put over them
ExperimentLoad(file, override) ==
    [q \in DOMAIN file \cup DOMAIN override |->
        IF q \in DOMAIN override THEN override[q] ELSE file[q]]

\* line 151-153
Overriding ==
    /\ pc = "options"
    /\ cli_overrides' = CliOverrides(arguments, Len(cli_opt_to_param))
    /\ pc' = "load"
    /\ UNCHANGED << arguments, experiment_file >>
    /\ UNCHANGED << experiment, raised, heap, population, pop, offspring,
                    fitnesses, gen, logbook, hall_of_fame, snapshot, clock,
                    current_time, snap_duration_start, saved >>
    /\ UNCHANGED << selectVars, fitnessVars, poolVars, saveVars >>

\* line 154-155
Loading ==
    /\ pc = "load"
    /\ experiment' = ExperimentLoad(experiment_file, cli_overrides)
    /\ pc' = "loaded"
    /\ UNCHANGED << arguments, experiment_file, cli_overrides >>
    /\ UNCHANGED << raised, heap, population, pop, offspring, fitnesses, gen,
                    logbook, hall_of_fame, snapshot, clock, current_time,
                    snap_duration_start, saved >>
    /\ UNCHANGED << selectVars, fitnessVars, poolVars, saveVars >>

(***************************************************************************)
(* SpecCli: main() up to the loaded experiment, for every choice of at     *)
(* most MaxGiven options.                                                  *)
(***************************************************************************)
InitCli ==
    /\ arguments \in ArgumentSets
    /\ experiment_file = ExperimentFile
    /\ cli_overrides = << >>
    /\ experiment = NoExperiment
    /\ pc = "options"
    /\ raised = ""
    /\ heap = << >>
    /\ population = << >>
    /\ pop = << >>
    /\ offspring = << >>
    /\ fitnesses = << >>
    /\ gen = Unbound
    /\ logbook = << >>
    /\ hall_of_fame = << >>
    /\ snapshot = Unbound
    /\ clock = 0
    /\ current_time = Unbound
    /\ snap_duration_start = Unbound
    /\ saved = << >>
    /\ SelectIdle
    /\ FitnessIdle
    /\ PoolIdle
    /\ SaveIdle

NextCli == Overriding \/ Loading

SpecCli == InitCli /\ [][NextCli]_vars

(***************************************************************************)
(* Evaluation on a worker pool: toolbox.map hands one task per animat to   *)
(* the workers, which complete them in any order.                          *)
(***************************************************************************)
\* the population evaluate is called with at this position of main()
EvaluatePop == IF pc = "evaluate0" THEN population ELSE offspring

\* toolbox.map(toolbox.evaluate, pop), line 273 / 279: the tasks are handed
\* out; what each returns is a function of its animat alone
PoolMap ==
    /\ pc \in {"evaluate0", "evaluate"}
    /\ tasks = << >>
    /\ tasks' \in FitnessLists(heap, EvaluatePop)
    /\ completed' = << >>
    /\ results' = << >>
    /\ UNCHANGED << mainVars, selectVars, fitnessVars, cliVars, saveVars >>

\* a worker completes one of the tasks that are still running
WorkerDone ==
    /\ tasks # << >>
    /\ \E j \in (1..Len(tasks)) \ Range(completed) :
         /\ completed' = Append(completed, j)
         /\ results' = [l \in DOMAIN results \cup {j} |->
                          IF l = j THEN tasks[j] ELSE results[l]]
    /\ UNCHANGED tasks
    /\ UNCHANGED << mainVars, selectVars, fitnessVars, cliVars, saveVars >>

\* the map returns the results by task index once every task is done, and
\* the loop of line 274-276 / 280-281 stores them
PoolJoin ==
    /\ tasks # << >>
    /\ Len(completed) = Len(tasks)
    /\ fitnesses' = [j \in 1..Len(tasks) |-> results[j]]
    /\ heap' = Evaluate(heap, EvaluatePop, fitnesses')
    /\ pc' = IF pc = "evaluate0" THEN "record0" ELSE "record"
    /\ tasks' = << >>
    /\ results' = << >>
    /\ UNCHANGED completed
    /\ UNCHANGED << experiment, raised, population, pop, offspring, gen,
                    logbook, hall_of_fame, snapshot, clock, current_time,
                    snap_duration_start, saved >>
    /\ UNCHANGED << selectVars, fitnessVars, cliVars, saveVars >>

(***************************************************************************)
(* SpecPool: whole runs whose evaluation runs on the worker pool.          *)
(***************************************************************************)
PoolConfigs ==
    [ngen : 0..MaxNgenPool, popsize : 1..MaxPoolPop, min_snapshots : {1},
     log_interval : {1}, snapshot_frequency : {0}, fitness_function : {"nat"}]

InitPool == InitMain(PoolConfigs)

NextPool ==
    \/ PoolMap
    \/ WorkerDone
    \/ PoolJoin
    \/ Record0
    \/ ForGen
    \/ Selection
    \/ SelectMax
    \/ SelectFor
    \/ SelectWhile
    \/ Selected
    \/ Cloning
    \/ Variation
    \/ Recording
    \/ Snapshotting
    \/ Finish

SpecPool == InitPool /\ [][NextPool]_vars

(***************************************************************************)
(* save_data(output_dir, gen, ...): the files of a snapshot, one write at  *)
(* a time.                                                                 *)
(***************************************************************************)
\* line 192-210: the files in the order they are written, data_json first
SaveFiles ==
    << "config.json", "metadata.json", "lineages.pkl", "logbook.pkl",
       "hof.pkl" >>

\* the file written after the given one, "return" after the last
FileAfter(file) ==
    LET j == CHOOSE l \in 1..Len(SaveFiles) : SaveFiles[l] = file
    IN  IF j < Len(SaveFiles) THEN SaveFiles[j + 1] ELSE "return"

\* a directory that holds every file of a save, written with the data of
\* generation g
SavedDirectory(g) == [file \in Range(SaveFiles) |-> g]

\* line 344-348: main calls save_data for a snapshot at the end of a
\* generation (which of the generations is decided by the clock and the
\* intervals)
SnapshotCall ==
    /\ pc = "loop"
    /\ wpc = "idle"
    /\ \E g \in (IF gen = Unbound THEN 1 ELSE gen + 1)..MaxNgenSave :
         /\ gen' = g
         /\ output_dir' = SaveData("snapshot", snapshot, g)
    /\ wpc' = "ensure_exists"
    /\ UNCHANGED << experiment, pc, raised, heap, population, pop, offspring,
                    fitnesses, logbook, hall_of_fame, snapshot, clock,
                    current_time, snap_duration_start, saved, fs >>
    /\ UNCHANGED << to_save, lineages >>
    /\ UNCHANGED << selectVars, fitnessVars, cliVars, poolVars >>

\* line 365-366: the final save_data(OUTPUT_DIR, gen, ...)
FinalCall ==
    /\ pc = "loop"
    /\ wpc = "idle"
    /\ gen # Unbound
    /\ output_dir' = SaveData("output", 0, gen)
    /\ pc' = "finish"
    /\ wpc' = "ensure_exists"
    /\ UNCHANGED << experiment, raised, heap, population, pop, offspring,
                    fitnesses, gen, logbook, hall_of_fame, snapshot, clock,
                    current_time, snap_duration_start, saved, fs >>
    /\ UNCHANGED << to_save, lineages >>
    /\ UNCHANGED << selectVars, fitnessVars, cliVars, poolVars >>

\* line 182: utils.ensure_exists(output_dir); a directory that exists is
\* left as it is
EnsureExists ==
    /\ wpc = "ensure_exists"
    /\ fs' = IF output_dir \in DOMAIN fs THEN fs
             ELSE [d \in DOMAIN fs \cup {output_dir} |->
                     IF d = output_dir THEN << >> ELSE fs[d]]
    /\ wpc' = SaveFiles[1]
    /\ UNCHANGED << output_dir, to_save, lineages >>
    /\ UNCHANGED << mainVars, selectVars, fitnessVars, cliVars, poolVars >>

\* line 199-201 and 208-210: one file is opened in output_dir and dumped;
\* the write can fail, which ends the run
WriteFile ==
    /\ wpc \in Range(SaveFiles)
    /\ \/ /\ fs' = [fs EXCEPT ![output_dir] =
                      [file \in DOMAIN fs[output_dir] \cup {wpc} |->
                          IF file = wpc THEN gen ELSE fs[output_dir][file]]]
          /\ wpc' = FileAfter(wpc)
          /\ UNCHANGED << pc, raised >>
       \/ /\ wpc' = "failed"
          /\ pc' = "error"
          /\ raised' = "OSError"
          /\ UNCHANGED fs
    /\ UNCHANGED output_dir
    /\ UNCHANGED << experiment, heap, population, pop, offspring, fitnesses,
                    gen, logbook, hall_of_fame, snapshot, clock, current_time,
                    snap_duration_start, saved >>
    /\ UNCHANGED << to_save, lineages >>
    /\ UNCHANGED << selectVars, fitnessVars, cliVars, poolVars >>

\* save_data returns to main: line 349-351 after a snapshot, the end of
\* main after the final save
SaveReturn ==
    /\ wpc = "return"
    /\ saved' = Append(saved, output_dir)
    /\ wpc' = "idle"
    /\ IF pc = "finish"
       THEN /\ pc' = "done"
            /\ UNCHANGED snapshot
       ELSE /\ pc' = pc
            /\ snapshot' = snapshot + 1
    /\ UNCHANGED << fs, output_dir >>
    /\ UNCHANGED << experiment, raised, heap, population, pop, offspring,
                    fitnesses, gen, logbook, hall_of_fame, clock,
                    current_time, snap_duration_start >>
    /\ UNCHANGED << to_save, lineages >>
    /\ UNCHANGED << selectVars, fitnessVars, cliVars, poolVars >>

(***************************************************************************)
(* SpecSave: the save_data calls of a run of up to MaxNgenSave             *)
(* generations, into an output directory that is empty or holds the first  *)
(* snapshot of an earlier run.                                             *)
(***************************************************************************)
\* the generation tag of data written by an earlier run
EarlierRun == 0

InitSave ==
    /\ fs \in { << >>,
                [d \in { SaveData("snapshot", 1, 1) } |->
                    SavedDirectory(EarlierRun)] }
    /\ output_dir = << >>
    /\ wpc = "idle"
    /\ to_save = << >>
    /\ lineages = << >>
    /\ experiment = NoExperiment
    /\ pc = "loop"
    /\ raised = ""
    /\ heap = << >>
    /\ population = << >>
    /\ pop = << >>
    /\ offspring = << >>
    /\ fitnesses = << >>
    /\ gen = Unbound
    /\ logbook = << >>
    /\ hall_of_fame = << >>
    /\ snapshot = 1
    /\ clock = 0
    /\ current_time = Unbound
    /\ snap_duration_start = Unbound
    /\ saved = << >>
    /\ SelectIdle
    /\ FitnessIdle
    /\ CliIdle
    /\ PoolIdle

NextSave ==
    SnapshotCall \/ FinalCall \/ EnsureExists \/ WriteFile \/ SaveReturn

SpecSave == InitSave /\ [][NextSave]_vars

(***************************************************************************)
(* Properties of select(animats, k), checked under SpecSelect.             *)
(***************************************************************************)
AllZeroFitness ==
    /\ Len(animats) > 0
    /\ \A j \in 1..Len(animats) : FitnessValue(animats[j]) = 0

\* C1: select on a population whose transformed fitness is zero everywhere
\* never raises, and what it returns are k animats of the population.
C1_AllZeroSelectNeverRaises ==
    AllZeroFitness =>
        /\ spc # "raised"
        /\ spc = "return" =>
              /\ Len(chosen) = k
              /\ \A j \in 1..Len(chosen) : chosen[j] \in Range(population)

\* C2: with max_fitness > 0, select keeps i = len(chosen) <= k, returns
\* exactly k animats, each a member of the population, and leaves the list
\* it was given as it was.
C2_SelectReturnsKMembers ==
    (spc \in {"for", "while", "return"} /\ max_fitness > 0) =>
        /\ Len(chosen) = i
        /\ i <= k
        /\ spc = "return" => Len(chosen) = k
        /\ \A j \in 1..Len(chosen) : chosen[j] \in Range(population)
        /\ animats = population
        /\ population = [j \in 1..Len(heap) |-> j]

\* C2's case: select has returned two animats, the same one twice, from a
\* population of several animats of different fitness
C2_Witness ==
    /\ spc = "return"
    /\ max_fitness > 0
    /\ Len(population) >= 2
    /\ k = 2
    /\ Len(chosen) = 2
    /\ chosen[1] = chosen[2]
    /\ FitnessValue(chosen[1]) < max_fitness

(***************************************************************************)
(* Properties of the generation loop, checked under SpecLoop.              *)
(***************************************************************************)
\* the generations of the in-loop snapshots, in the order they were written
SnapshotGens ==
    LET snaps == SelectSeq(saved, LAMBDA s : s.target = "snapshot")
    IN  [j \in 1..Len(snaps) |-> snaps[j].gen]

FinalPersisted == \E j \in 1..Len(saved) : saved[j].target = "output"

\* g is a multiple of d
IsMultiple(g, d) == \E q \in 0..g : g = q * d

\* C3: at the end of generation gen an in-loop snapshot is written exactly
\* when the wall-clock interval has elapsed or gen is a multiple of
\* ngen // min_snapshots (never by generation count when min_snapshots <= 0);
\* with the wall clock disabled, min_snapshots = 2 and ngen = 10 the
\* snapshots of a finished run are those of generations 5 and 10.
C3_SnapshotCadence ==
    /\ [][pc = "snapshot" =>
            ( ( /\ Len(saved') = Len(saved) + 1
                /\ saved'[Len(saved')] = SaveData("snapshot", snapshot, gen) )
              <=>
              ( \/ TimeElapsed(current_time')
                \/ /\ experiment.min_snapshots > 0
                   /\ IsMultiple(gen, experiment.ngen \div experiment.min_snapshots) ) )
         ]_vars
    /\ []( ( /\ pc = "done"
             /\ experiment.snapshot_frequency = 0
             /\ experiment.min_snapshots = 2
             /\ experiment.ngen = 10 )
           => SnapshotGens = << 5, 10 >> )

\* C3's case: the run of 10 generations with min_snapshots = 2 has finished
\* with its two in-loop snapshots
C3_Witness ==
    /\ pc = "done"
    /\ experiment.snapshot_frequency = 0
    /\ experiment.min_snapshots = 2
    /\ experiment.ngen = 10
    /\ Len(SnapshotGens) = 2

\* C4: for ngen >= 1 and min_snapshots = m >= 1 the run raises nothing and,
\* when ngen >= m, a finished run has written at least m in-loop snapshots.
C4_MinSnapshotsIsAMinimum ==
    (experiment.ngen >= 1 /\ experiment.min_snapshots >= 1) =>
        /\ raised = ""
        /\ (pc = "done" /\ experiment.ngen >= experiment.min_snapshots)
              => Len(SnapshotGens) >= experiment.min_snapshots

\* C5: once the run has ended, the final persist to the output directory
\* has been made, whatever ngen >= 0 and the snapshot intervals are.
C5_FinalPersistAlways ==
    pc \in {"done", "error"} => FinalPersisted

(***************************************************************************)
(* Properties of whole runs, checked under Spec.                           *)
(***************************************************************************)
\* the least integer that is at least a / b
CeilDiv(a, b) == (a + b - 1) \div b

\* C6 as stated: a run of 3 generations ends with ceil(3 / log_interval) + 1
\* Logbook records.
C6_LogbookCeil ==
    (pc = "done" /\ experiment.ngen = 3) =>
        Len(logbook) = CeilDiv(3, experiment.log_interval) + 1

\* C6, amended: a run of 3 generations ends with floor(3 / log_interval) + 1
\* Logbook records, those of the generations 0..3 that log_interval divides.
C6_LogbookFloor ==
    (pc = "done" /\ experiment.ngen = 3) =>
        /\ Len(logbook) = (3 \div experiment.log_interval) + 1
        /\ \A j \in 1..Len(logbook) :
              logbook[j].gen = (j - 1) * experiment.log_interval

\* C6's case: a finished run of 3 generations that logged every second one
C6_Witness ==
    /\ pc = "done"
    /\ experiment.ngen = 3
    /\ experiment.log_interval = 2
    /\ experiment.popsize = MaxPop
    /\ Len(logbook) = 2

\* the number of record(pop, gen) calls that have returned
RecordCalls ==
    CASE pc \in {"evaluate0", "record0"} -> 0
      [] pc \in {"select", "selecting", "clone", "vary", "evaluate", "record"} -> gen
      [] OTHER -> IF gen = Unbound THEN 1 ELSE gen + 1

\* the animats of the populations recorded so far: objects are created in
\* population order, popsize per generation
RecordedIds == 1..(experiment.popsize * RecordCalls)

HofIds == { hall_of_fame[j].of : j \in 1..Len(hall_of_fame) }

\* animat x ranks before animat y: fitter, or as fit and inserted earlier
RanksBefore(xvalue, xid, yvalue, yid) ==
    \/ xvalue > yvalue
    \/ xvalue = yvalue /\ xid < yid

\* C7: after every call of record the HallOfFame holds at most maxsize
\* (= popsize) entries, they are copies of the best animats of all recorded
\* populations by transformed fitness, best first, and among animats of
\* equal transformed fitness the one inserted earlier is the one kept.
C7_HallOfFameBestSeen ==
    /\ Len(hall_of_fame) <= experiment.popsize
    /\ Len(hall_of_fame) =
          IF Cardinality(RecordedIds) < experiment.popsize
          THEN Cardinality(RecordedIds) ELSE experiment.popsize
    /\ \A j \in 1..Len(hall_of_fame) :
          /\ hall_of_fame[j].of \in RecordedIds
          /\ hall_of_fame[j] = HofEntry(heap, hall_of_fame[j].of)
    /\ \A j, l \in 1..Len(hall_of_fame) :
          j < l => RanksBefore(hall_of_fame[j].value, hall_of_fame[j].of,
                               hall_of_fame[l].value, hall_of_fame[l].of)
    /\ \A id \in RecordedIds \ HofIds : \A j \in 1..Len(hall_of_fame) :
          RanksBefore(hall_of_fame[j].value, hall_of_fame[j].of,
                      heap[id].value, id)

\* C7's case: after several record calls the HallOfFame is full, holds an
\* animat of a later generation, and has left out an animat that is as fit
\* as its last entry but was inserted later
C7_Witness ==
    /\ RecordCalls >= 2
    /\ experiment.popsize = MaxPop
    /\ Len(hall_of_fame) = experiment.popsize
    /\ \E j \in 1..Len(hall_of_fame) : hall_of_fame[j].gen >= 1
    /\ \E id \in RecordedIds \ HofIds :
          /\ heap[id].value = hall_of_fame[Len(hall_of_fame)].value
          /\ id > hall_of_fame[Len(hall_of_fame)].of

\* C8: in a run where every animat's raw fitness is its generation index,
\* the top entry of the HallOfFame after generation g has been recorded has
\* generation g; after a run of 3 generations it has generation 3.
C8_TopEntryIsLatestGeneration ==
    ( /\ RecordCalls >= 1
      /\ \A id \in RecordedIds : heap[id].raw = heap[id].gen ) =>
        /\ Len(hall_of_fame) >= 1
        /\ hall_of_fame[1].gen = RecordCalls - 1
        /\ (pc = "done" /\ experiment.ngen = 3) => hall_of_fame[1].gen = 3

\* C8's case: the run of 3 generations of the largest population has
\* finished under the stub fitness
C8_Witness ==
    /\ pc = "done"
    /\ experiment.ngen = 3
    /\ experiment.popsize = MaxPop
    /\ experiment.fitness_function = "gen_index"
    /\ \A id \in RecordedIds : heap[id].raw = heap[id].gen
    /\ hall_of_fame[1].gen = 3

\* animat.lineage(): the animat and its ancestors, following the parent
\* references (at most `fuel` of them)
RECURSIVE LineageFrom(_, _)
LineageFrom(id, fuel) ==
    IF heap[id].parent = None \/ fuel = 0
    THEN << id >>
    ELSE << id >> \o LineageFrom(heap[id].parent, fuel - 1)

Lineage(id) == LineageFrom(id, Len(heap))

\* the generation of the live population
LiveGen ==
    IF gen = Unbound THEN 0
    ELSE IF pc \in {"select", "selecting", "clone", "vary", "evaluate", "record"}
         THEN gen - 1
         ELSE gen

\* C9: every animat of the live population has the generation index g of
\* the population; its parent reference is null exactly at generation 0 and
\* is otherwise the animat of generation g - 1 that selection picked for its
\* slot; following the parent references reaches a generation-0 root in
\* exactly g steps, so its lineage has g + 1 entries.
C9_LineageOfLivePopulation ==
    /\ \A j \in 1..Len(population) :
          LET id == population[j]
              line == Lineage(id)
          IN  /\ heap[id].gen = LiveGen
              /\ (heap[id].parent = None) <=> (LiveGen = 0)
              /\ Len(line) = LiveGen + 1
              /\ \A n \in 1..Len(line) : heap[line[n]].gen = LiveGen - (n - 1)
              /\ heap[line[Len(line)]].parent = None
    /\ (LiveGen >= 1 /\ pc \in {"snapshot", "for", "finish", "done"}) =>
          /\ Len(pop) = Len(population)
          /\ \A j \in 1..Len(population) :
                /\ heap[population[j]].parent = pop[j]
                /\ heap[pop[j]].gen = LiveGen - 1

\* C9's case: after 3 generations the animats of the live population are
\* clones of one selected parent and have lineages of 4 entries
C9_Witness ==
    /\ pc = "done"
    /\ experiment.ngen = 3
    /\ Len(population) = 2
    /\ heap[population[1]].parent = heap[population[2]].parent
    /\ Len(Lineage(population[1])) = 4
    /\ heap[Lineage(population[1])[4]].gen = 0

\* the animats evaluate was last called with
Evaluated ==
    IF pc = "record0" THEN population
    ELSE IF pc = "record" THEN offspring
    ELSE << >>

Trajectory == Reshape(game)

\* the distinct states that occur in the trajectory
DistinctStates == Range(Trajectory)

\* how often a state occurs in the trajectory
Occurrences(state) ==
    Cardinality({ j \in 1..Len(Trajectory) : Trajectory[j] = state })

\* the position at which a state occurs first
FirstEncounter(state) ==
    CHOOSE j \in 1..Len(Trajectory) :
        /\ Trajectory[j] = state
        /\ \A l \in 1..(j - 1) : Trajectory[l] # state

\* the states of a list of (state, count) pairs
StatesOf(pairs) == { pairs[j][1] : j \in 1..Len(pairs) }

\* the sum of the metric over a set of states
RECURSIVE MetricSum(_)
MetricSum(S) ==
    IF S = {} THEN 0
    ELSE LET x == CHOOSE y \in S : TRUE IN func[x] + MetricSum(S \ {x})

\* C11: the state-averaged fitness is the unweighted mean of the metric over
\* the distinct states of the trajectory: every distinct state contributes
\* exactly once, none is left out, and the counts do not weight the mean;
\* also for a trajectory of a single distinct state.
C11_StateAverageUnweighted ==
    fpc = "done" =>
        /\ Len(unique_states_and_counts) = Cardinality(DistinctStates)
        /\ StatesOf(unique_states_and_counts) = DistinctStates
        /\ mean.size > 0
        /\ mean.sum * Cardinality(DistinctStates)
              = MetricSum(DistinctStates) * mean.size

\* state x is listed before state y: more frequent, or as frequent and
\* encountered first
ListedBefore(x, y) ==
    \/ Occurrences(x) > Occurrences(y)
    \/ Occurrences(x) = Occurrences(y) /\ FirstEncounter(x) < FirstEncounter(y)

\* C18: _most_common_states(game, n) returns the n distinct states of the
\* highest occurrence counts (all of them when n is not given or exceeds
\* their number), each with its true count, by descending count, equal
\* counts in first-encountered order.
C18_MostCommonStates ==
    fpc = "returned" =>
        LET u == unique_states_and_counts
            all == Cardinality(DistinctStates)
            want == IF top_n = NotGiven \/ top_n > all THEN all ELSE top_n
        IN  /\ Len(u) = want
            /\ \A j \in 1..Len(u) :
                  /\ u[j][1] \in DistinctStates
                  /\ u[j][2] = Occurrences(u[j][1])
            /\ \A j, l \in 1..Len(u) : j < l => ListedBefore(u[j][1], u[l][1])
            /\ \A state \in DistinctStates \ StatesOf(u) :
                  \A j \in 1..Len(u) : ListedBefore(u[j][1], state)

(***************************************************************************)
(* Properties of the command-line overrides, checked under SpecCli.        *)
(***************************************************************************)
\* the parameter each option names, by the usage text of line 22-46
OptionNames ==
    <<
       << "--rng-seed", "rng_seed" >>,
       << "--snapshot", "snapshot_frequency" >>,
       << "--status-interval", "status_interval" >>,
       << "--min-snapshots", "min_snapshots" >>,
       << "--log-interval", "log_interval" >>,
       << "--num-samples", "num_samples" >>,
       << "--fitness", "fitness_function" >>,
       << "--num-gen", "ngen" >>,
       << "--pop-size", "popsize" >>,
       << "--init-genome", "init_genome" >>,
       << "--jumpstart", "init_start_codons" >>,
       << "--num-sensors", "num_sensors" >>,
       << "--num-hidden", "num_hidden" >>,
       << "--num-motors", "num_motors" >>,
       << "--world-width", "world_width" >>,
       << "--world-height", "world_height" >>,
       << "--mut-prob", "mutation_prob" >>,
       << "--dup-prob", "duplication_prob" >>,
       << "--del-prob", "deletion_prob" >>,
       << "--min-dup-del", "min_dup_del_width" >>,
       << "--max-dup-del", "max_dup_del_width" >>,
       << "--min-length", "min_genome_length" >>,
       << "--max-length", "max_genome_length" >>
    >>

\* the options that name parameter q
OptionsOf(q) ==
    { j \in 1..Len(OptionNames) : OptionNames[j][2] = q }

\* C12: every option that is given overrides the parameter it names and no
\* other (--min-dup-del the minimum, --max-dup-del the maximum width), and
\* a parameter whose option is not given keeps the experiment file's value.
C12_OptionsOverrideNamedParameter ==
    pc = "loaded" =>
        \A q \in ParamNames :
            IF \E j \in OptionsOf(q) : OptionNames[j][1] \in DOMAIN arguments
            THEN \E j \in OptionsOf(q) :
                    /\ OptionNames[j][1] \in DOMAIN arguments
                    /\ experiment[q] =
                          Convert(cli_opt_to_param[j].type,
                                  arguments[OptionNames[j][1]])
            ELSE experiment[q] = experiment_file[q]

(***************************************************************************)
(* Properties of the order of the phases, checked under Spec.              *)
(***************************************************************************)
\* the steps from one phase to the next: Init, Evaluate(0), Record(0), then
\* per generation Select, Clone, Vary, Evaluate, Record (and the snapshot
\* test), then Terminate
PhaseSteps ==
    { << "evaluate0", "record0" >>, << "record0", "for" >>,
      << "for", "select" >>, << "select", "selecting" >>,
      << "selecting", "selecting" >>, << "selecting", "clone" >>,
      << "clone", "vary" >>, << "vary", "evaluate" >>,
      << "evaluate", "record" >>, << "record", "snapshot" >>,
      << "snapshot", "for" >>, << "for", "finish" >>,
      << "finish", "done" >>, << "finish", "error" >> }

\* record has merged the animat into the HallOfFame: it is one of the
\* entries, or no entry is less fit than it
MergedIntoHallOfFame(id) ==
    \/ id \in HofIds
    \/ \A j \in 1..Len(hall_of_fame) : hall_of_fame[j].value >= heap[id].value

C15_SnapshotAtGenerationBoundary ==
    [][ saved' # saved =>
          /\ pc \in {"snapshot", "finish"}
          /\ spc = "idle"
          /\ tasks = << >>
          /\ Len(saved') = Len(saved) + 1
          /\ saved'[Len(saved')].gen = gen
          /\ gen \in 1..experiment.ngen
          /\ Len(population) = experiment.popsize
          /\ population = offspring
          /\ \A j \in 1..Len(population) :
                /\ heap[population[j]].gen = gen
                /\ heap[population[j]].raw # Unset
                /\ heap[population[j]].value # Unset
                /\ MergedIntoHallOfFame(population[j])
          /\ ShouldLog(gen) =>
                /\ Len(logbook) >= 1
                /\ logbook[Len(logbook)].gen = gen
          /\ UNCHANGED << heap, population, logbook, hall_of_fame, gen >>
      ]_vars

\* C15's case: a snapshot has been written in the middle of the run, of the
\* population of the generation just recorded
C15_Witness ==
    /\ pc = "for"
    /\ Len(saved) >= 2
    /\ saved[Len(saved)].target = "snapshot"
    /\ saved[Len(saved)].gen = gen
    /\ gen >= 2
    /\ gen < experiment.ngen
    /\ heap[population[1]].gen = gen
    /\ logbook[Len(logbook)].gen = gen

(***************************************************************************)
(* Properties of the replacement of the population, checked under Spec.    *)
(***************************************************************************)
\* C16: the live population holds exactly popsize animats after the setup
\* and after every generation; process_gen builds the next population of
\* new animats and leaves the animats of the previous one (generation
\* index, fitness, parent reference) as they were throughout selection,
\* cloning, variation and evaluation.
C16_PopulationReplacedWholesale ==
    /\ []( /\ Len(population) = experiment.popsize
           /\ \A j, l \in 1..Len(population) :
                 j # l => population[j] # population[l] )
    /\ [][ /\ Len(heap') >= Len(heap)
           /\ \A id \in 1..Len(heap) :
                 ( /\ pc # "evaluate0"
                   /\ id \in Range(population) \/ id \notin Range(offspring) )
                 => heap'[id] = heap[id]
           /\ population' # population =>
                 /\ pc = "record"
                 /\ Len(population') = experiment.popsize
                 /\ Range(population') \cap Range(population) = {}
                 /\ \A j \in 1..Len(population') :
                       heap[population'[j]].parent \in Range(population)
         ]_vars

\* C16's case: generation 2 has replaced generation 1, whose animats, one
\* of them selected twice, still have their generation index, fitness and
\* parents
C16_Witness ==
    /\ pc = "snapshot"
    /\ gen = 2
    /\ Len(population) = MaxPop
    /\ pop[1] = pop[2]
    /\ Range(population) \cap Range(pop) = {}
    /\ heap[pop[1]].gen = 1
    /\ heap[pop[1]].value # Unset
    /\ heap[pop[1]].parent # None
    /\ heap[heap[pop[1]].parent].gen = 0

(***************************************************************************)
(* Properties of the Logbook, checked under SpecLoop.                      *)
(***************************************************************************)
\* the generations recorded so far that log_interval divides
LoggedGenerations ==
    { g \in 0..(RecordCalls - 1) : g % experiment.log_interval = 0 }

\* C17: the Logbook only grows, by one record at its end at a time; at
\* every moment it holds exactly one record for each generation recorded
\* so far (0 included) that log_interval divides, in increasing order of
\* generation, and no record of another generation.
C17_LogbookAppendOnly ==
    /\ [][ \/ logbook' = logbook
           \/ /\ Len(logbook') = Len(logbook) + 1
              /\ SubSeq(logbook', 1, Len(logbook)) = logbook
              /\ pc \in {"record0", "record"} ]_vars
    /\ []( /\ Len(logbook) = Cardinality(LoggedGenerations)
           /\ { logbook[j].gen : j \in 1..Len(logbook) } = LoggedGenerations
           /\ \A j, l \in 1..Len(logbook) :
                 j < l => logbook[j].gen < logbook[l].gen )

\* C17's case: a finished run of the most generations that logged every
\* third one, generation 0 first and the last generation not at all
C17_Witness ==
    /\ pc = "done"
    /\ experiment.ngen = MaxNgen
    /\ experiment.log_interval = 3
    /\ Len(logbook) = (MaxNgen \div 3) + 1
    /\ logbook[1].gen = 0
    /\ logbook[Len(logbook)].gen < MaxNgen

(***************************************************************************)
(* Properties of the snapshot files, checked under SpecSave.               *)
(***************************************************************************)
\* a directory holds the complete set of files of one save
CompleteSnapshot(files) ==
    /\ DOMAIN files = Range(SaveFiles)
    /\ \A f1, f2 \in DOMAIN files : files[f1] = files[f2]

\* C19: at every point of a save, a failure between two writes included,
\* every snapshot directory that exists holds a complete and mutually
\* consistent set of config, metadata, lineages, logbook and hof files, and
\* a directory that was complete is not changed afterwards.
C19_SnapshotWritesAtomic ==
    /\ []( \A d \in DOMAIN fs : CompleteSnapshot(fs[d]) )
    /\ [][ \A d \in DOMAIN fs :
              CompleteSnapshot(fs[d]) => (d \in DOMAIN fs' /\ fs'[d] = fs[d])
         ]_vars

(***************************************************************************)
(* Termination of select(animats, k), checked under SpecSelectFair.        *)
(***************************************************************************)
\* C20: with max_fitness > 0 and fair random draws select returns: a drawn
\* candidate whose fitness is max_fitness is accepted whatever the uniform
\* draw is, so every rejection loop ends; a candidate of fitness zero is
\* accepted by the draw 0 and by no other.
C20_SelectTerminates ==
    /\ (spc \in {"for", "while"} /\ max_fitness > 0) ~> (spc = "return")
    /\ [][ ( /\ spc = "while"
             /\ max_fitness > 0
             /\ FitnessValue(candidate') = max_fitness )
           => /\ spc' = "for"
              /\ chosen' = Append(chosen, candidate')
              /\ i' = i + 1 ]_vars
    /\ []( (spc \in {"for", "while", "return"} /\ max_fitness > 0) =>
             /\ \A r \in RandomNumerators :
                   Accepts(r, max_fitness, max_fitness)
             /\ \A r \in RandomNumerators :
                   Accepts(r, 0, max_fitness) <=> r = 0 )

\* C20's case: select has returned the most animats asked for, among them
\* one of fitness zero and one of the maximal fitness
C20_Witness ==
    /\ spc = "return"
    /\ max_fitness > 0
    /\ k = MaxK
    /\ Len(chosen) = MaxK
    /\ \E j \in 1..Len(chosen) : FitnessValue(chosen[j]) = 0
    /\ \E j \in 1..Len(chosen) : FitnessValue(chosen[j]) = max_fitness

(***************************************************************************)
(* save_data, line 184-190: the lineages that are stored.  animat.lineage() *)
(* is Lineage(id): the animat first, then its ancestors back to the root.   *)
(***************************************************************************)
\* line 174: SAVE_ALL_LINEAGES = arguments['--all-lineages']
SAVE_ALL_LINEAGES == arguments["--all-lineages"]

\* line 187: max(pop, key=lambda animat: animat.fitness.value), the first of
\* the animats with the largest value
FittestOf(ids) ==
    ids[CHOOSE j \in 1..Len(ids) :
          /\ \A l \in 1..Len(ids) : FitnessValue(ids[l]) <= FitnessValue(ids[j])
          /\ \A l \in 1..(j - 1) : FitnessValue(ids[l]) < FitnessValue(ids[j])]

\* line 184-187: the animats whose lineages are saved
ToSave(ids) == IF SAVE_ALL_LINEAGES THEN ids ELSE << FittestOf(ids) >>

\* a stride that is the number of samples itself
StepBySamples(g, num_samples) ==
    IF num_samples <= 0 THEN 1 ELSE num_samples

\* line 188-189: step = (1 if experiment.num_samples <= 0
\*                       else max(gen // experiment.num_samples, 1))
Step(g, num_samples) ==
    IF num_samples <= 0 THEN 1 ELSE MaxOf({ g \div num_samples, 1 })

\* line 190: q[::st] for st >= 1: the entries at indices 0, st, 2 st, ...
RECURSIVE Slice(_, _)
Slice(q, st) ==
    IF Len(q) = 0 THEN << >>
    ELSE IF Len(q) <= st THEN << q[1] >>
    ELSE << q[1] >> \o Slice(SubSeq(q, st + 1, Len(q)), st)

\* line 184-187
CollectToSave ==
    /\ wpc = "collect"
    /\ to_save' = ToSave(pop)
    /\ wpc' = "step"
    /\ UNCHANGED << fs, output_dir, lineages >>
    /\ UNCHANGED << mainVars, selectVars, fitnessVars, cliVars, poolVars >>

\* line 188-190; the files are written next
CollectLineages ==
    /\ wpc = "step"
    /\ lineages' = [j \in 1..Len(to_save) |->
                      Slice(Lineage(to_save[j]),
                            Step(gen, experiment.num_samples))]
    /\ wpc' = SaveFiles[1]
    /\ UNCHANGED << fs, output_dir, to_save >>
    /\ UNCHANGED << mainVars, selectVars, fitnessVars, cliVars, poolVars >>

(***************************************************************************)
(* SpecLineage: the final save_data call (line 365-366) of a run of g      *)
(* generations, from line 184 on.  The heap holds the g + 1 generations of *)
(* the run; every animat of a later generation has a parent in the         *)
(* generation before it.                                                   *)
(***************************************************************************)
\* the heap after g generations of popsize animats: the animats of
\* generation t are t * popsize + 1 .. (t + 1) * popsize, parents[id] is the
\* position of the parent of id in its generation and raws[j] the raw
\* fitness of the j-th animat of the last generation
HeapOfRun(g, popsize, parents, raws) ==
    [id \in 1..((g + 1) * popsize) |->
        LET t == (id - 1) \div popsize
            raw == IF t = g THEN raws[id - g * popsize] ELSE 0
        IN  [gen |-> t, raw |-> raw, value |-> Transform(raw),
             alt_fitness |-> << >>,
             parent |-> IF t = 0 THEN None
                        ELSE (t - 1) * popsize + parents[id]]]

\* the generations a run of popsize animats can have: larger populations
\* run for fewer generations, which keeps the number of heaps small
LineageGens(popsize) == 1..(MaxLineageGen \div (popsize * popsize))

InitLineage ==
    /\ \E popsize \in 1..MaxLineagePop :
         \E g \in LineageGens(popsize) :
           /\ \E num_samples \in (-1)..MaxSamples :
                experiment = [ngen |-> g, popsize |-> popsize,
                              min_snapshots |-> 0, log_interval |-> 1,
                              snapshot_frequency |-> 0,
                              fitness_function |-> "nat",
                              num_samples |-> num_samples]
           /\ \E parents \in [(popsize + 1)..((g + 1) * popsize)
                                 -> 1..popsize],
                 raws \in [1..popsize -> 0..MaxRaw] :
                heap = HeapOfRun(g, popsize, parents, raws)
           /\ population = [j \in 1..popsize |-> g * popsize + j]
           /\ gen = g
           /\ output_dir = SaveData("output", 0, g)
    /\ pop = population
    /\ fs = [d \in { output_dir } |-> << >>]
    /\ wpc = "collect"
    /\ to_save = << >>
    /\ lineages = << >>
    /\ arguments \in [{ "--all-lineages" } -> BOOLEAN]
    /\ experiment_file = << >>
    /\ cli_overrides = << >>
    /\ pc = "finish"
    /\ raised = ""
    /\ offspring = << >>
    /\ fitnesses = << >>
    /\ logbook = << >>
    /\ hall_of_fame = << >>
    /\ snapshot = 1
    /\ clock = 0
    /\ current_time = Unbound
    /\ snap_duration_start = Unbound
    /\ saved = << >>
    /\ SelectIdle
    /\ FitnessIdle
    /\ PoolIdle

NextLineage ==
    CollectToSave \/ CollectLineages \/ WriteFile \/ SaveReturn

SpecLineage == InitLineage /\ [][NextLineage]_vars

(***************************************************************************)
(* Properties of the stored lineages, checked under SpecLineage.           *)
(***************************************************************************)
\* the stride the lineages of generation g are stored with
Stride(g, num_samples) ==
    IF num_samples <= 0 THEN 1
    ELSE IF g \div num_samples >= 1 THEN g \div num_samples ELSE 1

\* the stored lineage of every saved animat, once it is collected
StoredAsClaimed ==
    (wpc \notin { "collect", "step" }) =>
       LET num_samples == experiment.num_samples
           stride == Stride(gen, num_samples)
       IN  /\ Len(lineages) = Len(to_save)
           /\ \A j \in 1..Len(lineages) :
                LET stored == lineages[j]
                    whole == Lineage(to_save[j])
                IN  /\ Len(whole) = gen + 1
                    /\ Len(stored) * stride >= gen + 1
                    /\ (Len(stored) - 1) * stride < gen + 1
                    /\ stored[1] = whole[1]
                    /\ \A n \in 1..Len(stored) :
                         stored[n] = whole[(n - 1) * stride + 1]
                    /\ num_samples > 0 =>
                         /\ Len(stored) >= num_samples \/ Len(stored) >= gen + 1
                         /\ Len(stored) <= gen + 1

\* C21: a lineage stored at generation gen with num_samples = s has stride 1
\* if s <= 0 and max(gen // s, 1) otherwise; it keeps every stride-th entry
\* of the lineage from the first one on, ceil((gen + 1) / stride) entries,
\* at least min(s, gen + 1) of them when s > 0; the parent references of the
\* animats are left as they are.
C21_StoredLineageStride ==
    /\ [][heap' = heap]_vars
    /\ []StoredAsClaimed

\* a lineage of 8 animats stored with stride 7 // 2 = 3: the animat, its
\* great-grandparent and the parent of generation 1
C21_Witness ==
    /\ wpc = "return"
    /\ gen = 7
    /\ experiment.num_samples = 2
    /\ lineages = << << 8, 5, 2 >> >>
    /\ Lineage(8) = << 8, 7, 6, 5, 4, 3, 2, 1 >>
====
